---- MODULE Spec2Model ----
(***************************************************************************)
(* Model of the token-budget chunking of DoclingDocumentProcessor          *)
(* (app/adapters/document_processor/docling_document_processor.py).        *)
(*                                                                         *)
(* A text is a sequence of one-character strings.  The alphabet keeps two  *)
(* letters, the sentence punctuation "." (standing for the class [.!?] of  *)
(* the sentence regex) and the two whitespace characters " " and "\n".     *)
(* The token service is an injected dependency: it is modelled as a        *)
(* family of deterministic counters, each of which may raise at a chosen   *)
(* call of one invocation.                                                 *)
(*                                                                         *)
(* Two smaller machines stand beside it: one run of the shutdown script    *)
(* (service_scripts/shutdown_with_venv.py) over a process table and a      *)
(* pidfile, and one request to the upload route                            *)
(* (app/api/routes/documents.py) with the file it saves and removes.       *)
(***************************************************************************)
EXTENDS Integers, Sequences, FiniteSets, TLC

VARIABLES
    phase,           \* "new", "ready" (constructed) or "rejected" (ValueError)
    token_service,   \* self.token_service: [kind, failAt, sticky]
    chunk_size,      \* self.chunk_size
    chunk_overlap,   \* self.chunk_overlap
    min_chunk_size,  \* self.min_chunk_size
    args,            \* the sizes __init__ was called with
    warned,          \* _validate_chunk_parameters logged its warning
    op,              \* the last invocation: "none", "split" or "create"
    text,            \* its argument
    ret,             \* what it returned
    script,          \* service_scripts/shutdown_with_venv.py: one run of shutdown()
    upload           \* api/routes/documents.py: one request to upload_document

vars == <<phase, token_service, chunk_size, chunk_overlap, min_chunk_size, args, warned,
          op, text, ret, script, upload>>
config == <<phase, token_service, chunk_size, chunk_overlap, min_chunk_size, args, warned>>
\* what the processor's methods never touch
outside == <<script, upload>>
\* what the shutdown script and the upload route never touch
processor == <<phase, token_service, chunk_size, chunk_overlap, min_chunk_size, args, warned,
               op, text, ret>>

\* ------------------------------------------------------------------ bounds
MaxLen == 3
MaxWords == 5
MaxChunkSize == 3
MaxMinChunkSize == 2
MaxFailAt == 5

\* ------------------------------------------------------------------ texts
SP == " "
NL == "\n"
Letters == {"a", "b"}
Char == Letters \cup {".", SP, NL}

IsSpace(c) == c \in {SP, NL}
IsPunct(c) == c = "."

\* str.lstrip / str.rstrip / str.strip with no argument
RECURSIVE LStrip(_)
LStrip(s) == IF s # <<>> /\ IsSpace(Head(s)) THEN LStrip(Tail(s)) ELSE s

RECURSIVE RStrip(_)
RStrip(s) ==
    IF s # <<>> /\ IsSpace(s[Len(s)]) THEN RStrip(SubSeq(s, 1, Len(s) - 1)) ELSE s

Strip(s) == RStrip(LStrip(s))

\* str.split() with no argument: the maximal runs of non-whitespace
RECURSIVE SplitScan(_, _, _)
SplitScan(s, cur, acc) ==
    IF s = <<>> THEN (IF cur # <<>> THEN Append(acc, cur) ELSE acc)
    ELSE IF IsSpace(Head(s))
         THEN SplitScan(Tail(s), <<>>, IF cur # <<>> THEN Append(acc, cur) ELSE acc)
         ELSE SplitScan(Tail(s), Append(cur, Head(s)), acc)

Words(s) == SplitScan(s, <<>>, <<>>)

\* text.split('\n\n'): cut at every non-overlapping "\n\n", leftmost first;
\* empty pieces are kept
RECURSIVE ParaScan(_, _, _)
ParaScan(s, cur, acc) ==
    IF s = <<>> THEN Append(acc, cur)
    ELSE IF Len(s) >= 2 /\ s[1] = NL /\ s[2] = NL
         THEN ParaScan(SubSeq(s, 3, Len(s)), <<>>, Append(acc, cur))
         ELSE ParaScan(Tail(s), Append(cur, Head(s)), acc)

SplitParagraphs(s) == ParaScan(s, <<>>, <<>>)

\* re.split(r'(?<=[.!?])\s+', text): cut at every whitespace run that
\* directly follows a punctuation character; the run is removed
RECURSIVE SentScan(_, _, _, _)
SentScan(s, prev, cur, acc) ==
    IF s = <<>> THEN Append(acc, cur)
    ELSE IF IsSpace(Head(s)) /\ IsPunct(prev)
         THEN SentScan(LStrip(s), SP, <<>>, Append(acc, cur))
         ELSE SentScan(Tail(s), Head(s), Append(cur, Head(s)), acc)

ReSplitSentences(s) == SentScan(s, SP, <<>>, <<>>)

\* sep.join(parts)
RECURSIVE Join(_, _)
Join(parts, sep) ==
    IF parts = <<>> THEN <<>>
    ELSE IF Len(parts) = 1 THEN parts[1]
    ELSE parts[1] \o sep \o Join(Tail(parts), sep)

\* concatenation of a sequence of texts
RECURSIVE Concat(_)
Concat(parts) == IF parts = <<>> THEN <<>> ELSE Head(parts) \o Concat(Tail(parts))

\* the non-whitespace characters of a text, in order
RECURSIVE NonWS(_)
NonWS(s) ==
    IF s = <<>> THEN <<>>
    ELSE IF IsSpace(Head(s)) THEN NonWS(Tail(s)) ELSE <<Head(s)>> \o NonWS(Tail(s))

\* ---------------------------------------------------------- token service
\* token_service.count_tokens(text).  The service is external; four
\* deterministic counters stand for it:
\*   "words"    one token per whitespace-separated word (additive),
\*   "nonws"    one token per non-whitespace character (a word may be many tokens),
\*   "letters"  one token per letter (a word of punctuation alone is no token),
\*   "chars"    one token per character, whitespace included (a separator costs tokens).
Tokens(kind, s) ==
    CASE kind = "words"   -> Len(Words(s))
      [] kind = "nonws"   -> Len(NonWS(s))
      [] kind = "letters" -> Len(SelectSeq(s, LAMBDA c : c \in Letters))
      [] OTHER            -> Len(s)

\* whether the k-th count_tokens call of one invocation raises
Raises(k) ==
    /\ token_service.failAt > 0
    /\ \/ k = token_service.failAt
       \/ token_service.sticky /\ k > token_service.failAt

\* one call, given the number n of calls made before it
CountTokens(s, n) ==
    [n |-> n + 1, exc |-> Raises(n + 1), val |-> Tokens(token_service.kind, s)]

\* --------------------------------------------------------------- splitting
\* Every splitter returns [exc, n, out, caught]: whether it raised, the
\* number of counter calls made so far, the chunks, and whether an
\* exception was swallowed by a handler below _recursive_token_split.
Raised(n) == [exc |-> TRUE, n |-> n, out |-> <<>>, caught |-> FALSE]
Returned(out, n, caught) == [exc |-> FALSE, n |-> n, out |-> out, caught |-> caught]

\* a word loop that flushes the buffer together with the word that overflows it
RECURSIVE WordLoopFlushesAfter(_, _, _, _)
WordLoopFlushesAfter(words, chunks, current_chunk, n) ==
    IF words = <<>>
    THEN Returned(IF current_chunk # <<>> THEN Append(chunks, current_chunk) ELSE chunks,
                  n, FALSE)
    ELSE LET word == Head(words)
             test_chunk == Strip(current_chunk \o <<SP>> \o word)
             c == CountTokens(test_chunk, n)
         IN  IF c.exc THEN Raised(c.n)
             ELSE IF c.val > chunk_size /\ current_chunk # <<>>
                  THEN WordLoopFlushesAfter(Tail(words), Append(chunks, test_chunk), <<>>, c.n)
                  ELSE WordLoopFlushesAfter(Tail(words), chunks, test_chunk, c.n)

\* a word loop that flushes as soon as the buffer would reach chunk_size
RECURSIVE WordLoopFlushesAtBudget(_, _, _, _)
WordLoopFlushesAtBudget(words, chunks, current_chunk, n) ==
    IF words = <<>>
    THEN Returned(IF current_chunk # <<>> THEN Append(chunks, current_chunk) ELSE chunks,
                  n, FALSE)
    ELSE LET word == Head(words)
             test_chunk == Strip(current_chunk \o <<SP>> \o word)
             c == CountTokens(test_chunk, n)
         IN  IF c.exc THEN Raised(c.n)
             ELSE IF c.val >= chunk_size /\ current_chunk # <<>>
                  THEN WordLoopFlushesAtBudget(Tail(words), Append(chunks, current_chunk),
                                               word, c.n)
                  ELSE WordLoopFlushesAtBudget(Tail(words), chunks, test_chunk, c.n)

\* the loop of _split_by_words
RECURSIVE WordLoop(_, _, _, _)
WordLoop(words, chunks, current_chunk, n) ==
    IF words = <<>>
    THEN Returned(IF current_chunk # <<>> THEN Append(chunks, current_chunk) ELSE chunks,
                  n, FALSE)
    ELSE LET word == Head(words)
             test_chunk == Strip(current_chunk \o <<SP>> \o word)
             c == CountTokens(test_chunk, n)
         IN  IF c.exc THEN Raised(c.n)
             ELSE IF c.val > chunk_size /\ current_chunk # <<>>
                  THEN WordLoop(Tail(words), Append(chunks, current_chunk), word, c.n)
                  ELSE WordLoop(Tail(words), chunks, test_chunk, c.n)

SplitByWords(s, n) == WordLoop(Words(s), <<>>, <<>>, n)

\* a flush that forgets the buffer left after the last unit
FlushDropsRest(chunks, current_chunk) == chunks

Flush(chunks, current_chunk) ==
    IF Strip(current_chunk) # <<>> THEN Append(chunks, Strip(current_chunk)) ELSE chunks

\* the loop of _split_by_sentences
RECURSIVE SentenceLoop(_, _, _, _, _)

\* its branch for a sentence over the budget, w being what _split_by_words returned
SentenceTooLarge(sentences, chunks, current_chunk, w) ==
    IF w.exc THEN Raised(w.n)
    ELSE SentenceLoop(Tail(sentences),
                      (IF current_chunk # <<>> THEN Append(chunks, Strip(current_chunk))
                       ELSE chunks) \o w.out,
                      <<>>, 0, w.n)

\* a sentence loop that flushes as soon as the buffer would reach chunk_size
SentenceLoopFlushesAtBudget(sentences, chunks, current_chunk, current_tokens, n) ==
    IF sentences = <<>> THEN Returned(Flush(chunks, current_chunk), n, FALSE)
    ELSE LET sentence == Head(sentences)
             c == CountTokens(sentence, n)
         IN  IF c.exc THEN Raised(c.n)
             ELSE IF c.val > chunk_size
             THEN SentenceTooLarge(sentences, chunks, current_chunk,
                                   SplitByWords(sentence, c.n))
             ELSE IF current_tokens + c.val >= chunk_size /\ current_chunk # <<>>
             THEN SentenceLoop(Tail(sentences), Append(chunks, Strip(current_chunk)),
                               sentence, c.val, c.n)
             ELSE IF current_chunk # <<>>
             THEN SentenceLoop(Tail(sentences), chunks, current_chunk \o <<SP>> \o sentence,
                               current_tokens + c.val, c.n)
             ELSE SentenceLoop(Tail(sentences), chunks, sentence, c.val, c.n)

SentenceLoop(sentences, chunks, current_chunk, current_tokens, n) ==
    IF sentences = <<>> THEN Returned(Flush(chunks, current_chunk), n, FALSE)
    ELSE LET sentence == Head(sentences)
             c == CountTokens(sentence, n)
         IN  IF c.exc THEN Raised(c.n)
             ELSE IF c.val > chunk_size
             THEN SentenceTooLarge(sentences, chunks, current_chunk,
                                   SplitByWords(sentence, c.n))
             ELSE IF current_tokens + c.val > chunk_size /\ current_chunk # <<>>
             THEN SentenceLoop(Tail(sentences), Append(chunks, Strip(current_chunk)),
                               sentence, c.val, c.n)
             ELSE IF current_chunk # <<>>
             THEN SentenceLoop(Tail(sentences), chunks, current_chunk \o <<SP>> \o sentence,
                               current_tokens + c.val, c.n)
             ELSE SentenceLoop(Tail(sentences), chunks, sentence, c.val, c.n)

\* [s.strip() for s in sentences if s.strip()]
StrippedNonEmpty(parts) ==
    LET keep == SelectSeq(parts, LAMBDA p : Strip(p) # <<>>)
    IN  [i \in 1..Len(keep) |-> Strip(keep[i])]

\* the handler of _split_by_sentences, r being what its loop did
SentencesOrText(s, r) == IF r.exc THEN Returned(<<s>>, r.n, TRUE) ELSE r

SplitBySentences(s, n) ==
    IF StrippedNonEmpty(ReSplitSentences(s)) = <<>> THEN Returned(<<s>>, n, FALSE)
    ELSE SentencesOrText(s, SentenceLoop(StrippedNonEmpty(ReSplitSentences(s)),
                                         <<>>, <<>>, 0, n))

\* an overlap walk that stops one token too late
RECURSIVE OverlapLoopOverBudget(_, _, _, _)
OverlapLoopOverBudget(rev_words, overlap_words, target_tokens, n) ==
    IF rev_words = <<>> THEN Returned(Join(overlap_words, <<SP>>), n, FALSE)
    ELSE LET word == Head(rev_words)
             test_text == Join(<<word>> \o overlap_words, <<SP>>)
             c == CountTokens(test_text, n)
         IN  IF c.exc THEN Returned(<<>>, c.n, TRUE)
             ELSE IF c.val > target_tokens + 1
                  THEN Returned(Join(overlap_words, <<SP>>), c.n, FALSE)
                  ELSE OverlapLoopOverBudget(Tail(rev_words), <<word>> \o overlap_words,
                                             target_tokens, c.n)

\* the loop of _get_overlap_text over reversed(words)
RECURSIVE OverlapLoop(_, _, _, _)
OverlapLoop(rev_words, overlap_words, target_tokens, n) ==
    IF rev_words = <<>> THEN Returned(Join(overlap_words, <<SP>>), n, FALSE)
    ELSE LET word == Head(rev_words)
             test_text == Join(<<word>> \o overlap_words, <<SP>>)
             c == CountTokens(test_text, n)
         IN  IF c.exc THEN Returned(<<>>, c.n, TRUE)
             ELSE IF c.val > target_tokens
                  THEN Returned(Join(overlap_words, <<SP>>), c.n, FALSE)
                  ELSE OverlapLoop(Tail(rev_words), <<word>> \o overlap_words,
                                   target_tokens, c.n)

Reverse(q) == [i \in 1..Len(q) |-> q[Len(q) + 1 - i]]

\* an overlap text that never takes more than the last word
GetOverlapTextLastWord(s, target_tokens, n) ==
    OverlapLoop(IF Words(s) = <<>> THEN <<>> ELSE <<Words(s)[Len(Words(s))]>>,
                <<>>, target_tokens, n)

GetOverlapText(s, target_tokens, n) ==
    OverlapLoop(Reverse(Words(s)), <<>>, target_tokens, n)

\* an overlap injection that reads the chunk before as already overlapped
RECURSIVE OverlapFromReadsOverlapped(_, _, _, _, _)

OverlapStepReadsOverlapped(chunks, i, overlapped_chunks, caught, o) ==
    OverlapFromReadsOverlapped(chunks, i + 1,
                Append(overlapped_chunks,
                       IF o.out # <<>> THEN o.out \o <<SP>> \o chunks[i] ELSE chunks[i]),
                o.n, caught \/ o.caught)

OverlapFromReadsOverlapped(chunks, i, overlapped_chunks, n, caught) ==
    IF i > Len(chunks) THEN Returned(overlapped_chunks, n, caught)
    ELSE IF i = 1 THEN OverlapFromReadsOverlapped(chunks, 2, <<chunks[1]>>, n, caught)
    ELSE OverlapStepReadsOverlapped(chunks, i, overlapped_chunks, caught,
                     GetOverlapText(overlapped_chunks[i - 1], chunk_overlap, n))

\* the loop of _apply_overlap from position i on
RECURSIVE OverlapFrom(_, _, _, _, _)

\* a step that prepends the whole chunk before instead of its overlap text
OverlapStepWholePrevious(chunks, i, overlapped_chunks, caught, o) ==
    OverlapFrom(chunks, i + 1,
                Append(overlapped_chunks, chunks[i - 1] \o <<SP>> \o chunks[i]),
                o.n, caught \/ o.caught)

\* its step for chunk i > 1, o being what _get_overlap_text returned
OverlapStep(chunks, i, overlapped_chunks, caught, o) ==
    OverlapFrom(chunks, i + 1,
                Append(overlapped_chunks,
                       IF o.out # <<>> THEN o.out \o <<SP>> \o chunks[i] ELSE chunks[i]),
                o.n, caught \/ o.caught)

OverlapFrom(chunks, i, overlapped_chunks, n, caught) ==
    IF i > Len(chunks) THEN Returned(overlapped_chunks, n, caught)
    ELSE IF i = 1 THEN OverlapFrom(chunks, 2, <<chunks[1]>>, n, caught)
    ELSE OverlapStep(chunks, i, overlapped_chunks, caught,
                     GetOverlapText(chunks[i - 1], chunk_overlap, n))

ApplyOverlap(chunks, n) ==
    IF Len(chunks) <= 1 THEN Returned(chunks, n, FALSE)
    ELSE OverlapFrom(chunks, 1, <<>>, n, FALSE)

\* a character split whose windows share their border character
RECURSIVE FallbackFromSharesBorder(_, _, _)
FallbackFromSharesBorder(s, i, chunks) ==
    LET chunk_size_chars == chunk_size * 4
        hi == IF i + chunk_size_chars < Len(s) THEN i + chunk_size_chars ELSE Len(s)
        chunk == SubSeq(s, i + 1, hi)
    IN  IF i >= Len(s) THEN chunks
        ELSE FallbackFromSharesBorder(s, i + chunk_size_chars - 1,
                          IF Strip(chunk) # <<>> THEN Append(chunks, Strip(chunk)) ELSE chunks)

\* _fallback_character_split: the windows from offset i on (0-based)
RECURSIVE FallbackFrom(_, _, _)
FallbackFrom(s, i, chunks) ==
    LET chunk_size_chars == chunk_size * 4
        hi == IF i + chunk_size_chars < Len(s) THEN i + chunk_size_chars ELSE Len(s)
        chunk == SubSeq(s, i + 1, hi)
    IN  IF i >= Len(s) THEN chunks
        ELSE FallbackFrom(s, i + chunk_size_chars,
                          IF Strip(chunk) # <<>> THEN Append(chunks, Strip(chunk)) ELSE chunks)

FallbackCharacterSplit(s) == FallbackFrom(s, 0, <<>>)

\* the paragraph loop of _recursive_token_split
RECURSIVE ParagraphLoop(_, _, _, _, _, _)

\* a branch for a paragraph over the budget that keeps the buffer across it
ParagraphTooLargeKeepsBuffer(paragraphs, chunks, current_chunk, caught, p) ==
    ParagraphLoop(Tail(paragraphs), chunks \o p.out, current_chunk,
                  Tokens(token_service.kind, current_chunk), p.n, caught \/ p.caught)

\* its branch for a paragraph over the budget, p being what
\* _split_by_sentences returned
ParagraphTooLarge(paragraphs, chunks, current_chunk, caught, p) ==
    ParagraphLoop(Tail(paragraphs),
                  (IF current_chunk # <<>> THEN Append(chunks, Strip(current_chunk))
                   ELSE chunks) \o p.out,
                  <<>>, 0, p.n, caught \/ p.caught)

ParagraphLoop(paragraphs, chunks, current_chunk, current_tokens, n, caught) ==
    IF paragraphs = <<>> THEN Returned(Flush(chunks, current_chunk), n, caught)
    ELSE LET paragraph == Strip(Head(paragraphs))
             c == CountTokens(paragraph, n)
         IN  IF paragraph = <<>>
             THEN ParagraphLoop(Tail(paragraphs), chunks, current_chunk, current_tokens,
                                n, caught)
             ELSE IF c.exc THEN Raised(c.n)
             ELSE IF c.val > chunk_size
             THEN ParagraphTooLarge(paragraphs, chunks, current_chunk, caught,
                                    SplitBySentences(paragraph, c.n))
             ELSE IF current_tokens + c.val > chunk_size /\ current_chunk # <<>>
             THEN ParagraphLoop(Tail(paragraphs), Append(chunks, Strip(current_chunk)),
                                paragraph, c.val, c.n, caught)
             ELSE IF current_chunk # <<>>
             THEN ParagraphLoop(Tail(paragraphs), chunks,
                                current_chunk \o <<NL, NL>> \o paragraph,
                                current_tokens + c.val, c.n, caught)
             ELSE ParagraphLoop(Tail(paragraphs), chunks, paragraph, c.val, c.n, caught)

\* What one invocation of _recursive_token_split yields:
\*   exc      an exception left the function,
\*   out      the returned list,
\*   pre      the list before _apply_overlap (out itself when that is not reached),
\*   path     "base", "paragraphs", "sentences" or "fallback",
\*   caught   an exception was swallowed by _split_by_sentences,
\*   ocaught  an exception was swallowed by _get_overlap_text,
\*   n        the number of count_tokens calls made.
SplitResult(exc, out, pre, path, caught, ocaught, n) ==
    [exc |-> exc, out |-> out, pre |-> pre, path |-> path, caught |-> caught,
     ocaught |-> ocaught, n |-> n]

\* the end of the try block: h is what the hierarchical split returned,
\* o what overlap injection made of it
Overlapped(path, h, o) ==
    IF o.exc THEN SplitResult(TRUE, <<>>, <<>>, "none", FALSE, FALSE, o.n)
    ELSE SplitResult(FALSE, o.out, h.out, path, h.caught, o.caught, o.n)

\* an end of the try block that injects overlap only for chunk_overlap > 1
WithOverlapNeedsTwo(path, h) ==
    IF h.exc THEN SplitResult(TRUE, <<>>, <<>>, "none", FALSE, FALSE, h.n)
    ELSE IF Len(h.out) > 1 /\ chunk_overlap > 1
    THEN Overlapped(path, h, ApplyOverlap(h.out, h.n))
    ELSE Overlapped(path, h, Returned(h.out, h.n, FALSE))

\* "if len(chunks) > 1 and self.chunk_overlap > 0" and the return
WithOverlap(path, h) ==
    IF h.exc THEN SplitResult(TRUE, <<>>, <<>>, "none", FALSE, FALSE, h.n)
    ELSE IF Len(h.out) > 1 /\ chunk_overlap > 0
    THEN Overlapped(path, h, ApplyOverlap(h.out, h.n))
    ELSE Overlapped(path, h, Returned(h.out, h.n, FALSE))

\* the body of the try block of _recursive_token_split
SplitBody(s) ==
    LET c == CountTokens(s, 0)
    IN  IF c.exc THEN SplitResult(TRUE, <<>>, <<>>, "none", FALSE, FALSE, c.n)
        ELSE IF c.val <= chunk_size
        THEN SplitResult(FALSE, <<s>>, <<s>>, "base", FALSE, FALSE, c.n)
        ELSE IF Len(SplitParagraphs(s)) > 1
        THEN WithOverlap("paragraphs",
                         ParagraphLoop(SplitParagraphs(s), <<>>, <<>>, 0, c.n, FALSE))
        ELSE WithOverlap("sentences", SplitBySentences(s, c.n))

\* the handler of _recursive_token_split: the character split of the whole text
OrFallback(s, b) ==
    IF b.exc
    THEN SplitResult(FALSE, FallbackCharacterSplit(s), FallbackCharacterSplit(s),
                     "fallback", FALSE, FALSE, b.n)
    ELSE b

\* a split without the handler: what is raised in the body leaves the function
RecursiveTokenSplitNoHandler(s) == SplitBody(s)

\* _recursive_token_split: the try block and its handler
RecursiveTokenSplit(s) == OrFallback(s, SplitBody(s))

\* a fragment loop that also drops the chunks of exactly min_chunk_size characters
RECURSIVE FragmentLoopDropsEqual(_, _, _, _)
FragmentLoopDropsEqual(text_chunks, i, chunks, n) ==
    IF i >= Len(text_chunks) THEN Returned(chunks, n, FALSE)
    ELSE LET chunk_text == text_chunks[i + 1]
             c == CountTokens(chunk_text, n)
             chunk == [content |-> Strip(chunk_text), chunk_index |-> i,
                       chunk_token_count |-> c.val, chunk_char_count |-> Len(chunk_text)]
         IN  IF Len(Strip(chunk_text)) <= min_chunk_size
             THEN FragmentLoopDropsEqual(text_chunks, i + 1, chunks, n)
             ELSE IF c.exc THEN Raised(c.n)
             ELSE FragmentLoopDropsEqual(text_chunks, i + 1, Append(chunks, chunk), c.n)

\* the loop of _create_token_chunks over enumerate(text_chunks); i is 0-based
RECURSIVE FragmentLoop(_, _, _, _)
FragmentLoop(text_chunks, i, chunks, n) ==
    IF i >= Len(text_chunks) THEN Returned(chunks, n, FALSE)
    ELSE LET chunk_text == text_chunks[i + 1]
             c == CountTokens(chunk_text, n)
             chunk == [content |-> Strip(chunk_text), chunk_index |-> i,
                       chunk_token_count |-> c.val, chunk_char_count |-> Len(chunk_text)]
         IN  IF Len(Strip(chunk_text)) < min_chunk_size
             THEN FragmentLoop(text_chunks, i + 1, chunks, n)
             ELSE IF c.exc THEN Raised(c.n)
             ELSE FragmentLoop(text_chunks, i + 1, Append(chunks, chunk), c.n)

\* a handler that lets the fragments through when the loop raised
FragmentsSwallowsLoopError(split, f) ==
    [split |-> split, error |-> split.exc,
     chunks |-> IF split.exc THEN <<>> ELSE f.out]

\* the loop and the handler of _create_token_chunks, f being what the loop did
Fragments(split, f) ==
    [split |-> split, error |-> split.exc \/ f.exc,
     chunks |-> IF split.exc THEN <<>> ELSE f.out]

FragmentsOf(split) == Fragments(split, FragmentLoop(split.out, 0, <<>>, split.n))

\* _create_token_chunks: [split, error, chunks]; error stands for the
\* DocumentProcessingError raised by its handler
CreateTokenChunks(s) == FragmentsOf(RecursiveTokenSplit(s))

\* ------------------------------------------------------------ construction
\* a validation that lets an overlap equal to chunk_size through
ValidateRaisesLetsEqual(cs, co, mcs) ==
    \/ cs <= 0
    \/ co < 0
    \/ co > cs
    \/ mcs <= 0

\* _validate_chunk_parameters: TRUE when it raises ValueError
ValidateRaises(cs, co, mcs) ==
    \/ cs <= 0
    \/ co < 0
    \/ co >= cs
    \/ mcs <= 0

\* _validate_chunk_parameters: TRUE when it logs the warning (it raised nothing)
ValidateWarns(cs, co, mcs) == ~ValidateRaises(cs, co, mcs) /\ mcs > cs * 4

\* ------------------------------------------------------------------ inputs
Kinds == {"words", "nonws", "letters", "chars"}

TokenServices ==
    {[kind |-> k, failAt |-> 0, sticky |-> FALSE] : k \in Kinds}
    \cup {[kind |-> "words", failAt |-> f, sticky |-> b] : f \in 1..MaxFailAt, b \in BOOLEAN}

\* every string of at most MaxLen characters
Strings == UNION {[1..k -> Char] : k \in 0..MaxLen}

\* runs of one-letter words a b a b ... joined by separators
Separators == {<<SP>>, <<NL>>, <<NL, NL>>, <<".", SP>>}
WordAt(i) == IF i % 2 = 1 THEN <<"a">> ELSE <<"b">>

RECURSIVE Run(_, _)
Run(seps, i) ==
    IF i > Len(seps) THEN WordAt(i) ELSE WordAt(i) \o seps[i] \o Run(seps, i + 1)

WordRuns == UNION {{Run(seps, 1) : seps \in [1..k -> Separators]} : k \in 1..(MaxWords - 1)}

Texts == Strings \cup WordRuns

NoSplit == [exc |-> FALSE, out |-> <<>>, pre |-> <<>>, path |-> "none", caught |-> FALSE,
            ocaught |-> FALSE, n |-> 0]
NoCall == [split |-> NoSplit, error |-> FALSE, chunks |-> <<>>]
NoArgs == [chunk_size |-> 0, chunk_overlap |-> 0, min_chunk_size |-> 0]

\* ----------------------------------------------------------- upload route
\* api/routes/documents.py.  A file name is kept by its suffix, as
\* Path(filename).suffix gives it.
Suffixes == {"", ".pdf", ".PDF", ".docx", ".Doc", ".pptx", ".md", ".txt"}

\* str.lower() on the suffixes above
Lower(suffix) ==
    CASE suffix = ".PDF" -> ".pdf"
      [] suffix = ".Doc" -> ".doc"
      [] OTHER -> suffix

\* str.lstrip(".") on the lowered suffixes
LStripDot(suffix) ==
    CASE suffix = ".pdf" -> "pdf"
      [] suffix = ".docx" -> "docx"
      [] suffix = ".doc" -> "doc"
      [] suffix = ".pptx" -> "pptx"
      [] suffix = ".md" -> "md"
      [] suffix = ".txt" -> "txt"
      [] OTHER -> suffix

\* the keys of ext_mapping that are not commented out
ExtMapping == {"pdf", "docx", "doc"}

\* determine_document_type(filename): raises InvalidDocumentTypeError or
\* returns the DocumentType of the extension
DetermineDocumentType(filename) ==
    LET ext == LStripDot(Lower(filename))
    IN  [raises |-> ext \notin ExtMapping, type |-> ext]

\* uuid.uuid4() of the request
NewIds == {"u1", "u2"}

\* the number of bytes file.file holds: an empty upload or not
Sizes == {0, 1}

NoUpload == [pc |-> "none", filename |-> "", size |-> 0, doc_type |-> "", saved_path |-> "",
             on_disk |-> FALSE, written |-> FALSE, file_size |-> 0, outcome |-> "none",
             delete_failed |-> FALSE]

\* an exit that removes the saved file on the successful return only
ExitCleansOnSuccessOnly(u, outcome, unlink_ok) ==
    LET there == u.saved_path # "" /\ u.on_disk /\ outcome = "result"
    IN  [u EXCEPT !.pc = IF outcome = "result" THEN "returned" ELSE "raised",
                  !.outcome = outcome,
                  !.on_disk = IF there THEN ~unlink_ok ELSE @,
                  !.delete_failed = there /\ ~unlink_ok]

\* the way out of upload_document: after process_document returned, or in
\* the handler of "except Exception", saved_path.unlink() when saved_path
\* is set and exists, a failure of unlink being logged only; then return
\* result, or raise
Exit(u, outcome, unlink_ok) ==
    LET there == u.saved_path # "" /\ u.on_disk
    IN  [u EXCEPT !.pc = IF outcome = "result" THEN "returned" ELSE "raised",
                  !.outcome = outcome,
                  !.on_disk = IF there THEN ~unlink_ok ELSE @,
                  !.delete_failed = there /\ ~unlink_ok]

\* ------------------------------------------------------- shutdown script
\* service_scripts/shutdown_with_venv.py.  The process table is what psutil
\* shows: a process is alive or gone; its name, command line and working
\* directory are readable or not (AccessDenied, ZombieProcess); marker says
\* that one of the markers occurs in its name or command line, cwd that its
\* working directory is the repository or below it, cmd that the path of the
\* repository occurs in its command line.  tough is how it takes signals:
\* it dies on terminate, dies on kill only, survives both, or refuses the
\* signal of this user (AccessDenied).
Pids == {1, 2}
Toughness == {"dies", "ignores_terminate", "unkillable", "denied"}

Gone == [alive |-> FALSE, readable |-> FALSE, marker |-> FALSE, cwd |-> FALSE,
         cmd |-> FALSE, tough |-> "dies"]

Processes ==
    {Gone}
    \cup {[alive |-> TRUE, readable |-> TRUE, marker |-> m, cwd |-> c, cmd |-> r,
           tough |-> t] : m \in BOOLEAN, c \in BOOLEAN, r \in BOOLEAN, t \in Toughness}
    \cup {[alive |-> TRUE, readable |-> FALSE, marker |-> FALSE, cwd |-> FALSE,
           cmd |-> FALSE, tough |-> t] : t \in Toughness}

\* the processes below p in the parent relation (0: a parent outside the table)
RECURSIVE Below(_, _, _)
Below(parent, S, k) ==
    IF k = 0 THEN S
    ELSE Below(parent, S \cup {q \in Pids : parent[q] \in S}, k - 1)

Descendants(parent, p) ==
    Below(parent, {q \in Pids : parent[q] = p}, Cardinality(Pids))

Parents == {f \in [Pids -> Pids \cup {0}] : \A p \in Pids : p \notin Descendants(f, p)}

\* a set of pids as the list psutil yields, in pid order
RECURSIVE Ascending(_)
Ascending(S) ==
    IF S = {} THEN <<>>
    ELSE LET m == CHOOSE x \in S : \A y \in S : x <= y
         IN  <<m>> \o Ascending(S \ {m})

\* _is_service_process(proc, markers)
IsServiceProcessMarkerOnly(proc) ==
    proc.alive /\ proc.readable /\ proc.marker

IsServiceProcess(proc) ==
    /\ proc.alive
    /\ proc.readable
    /\ proc.marker /\ (proc.cwd \/ proc.cmd)

\* the loop of target.terminate() in _terminate_process
RECURSIVE TerminateLoop(_, _, _)
TerminateLoop(targets, procs, signalled) ==
    IF targets = <<>>
    THEN [denied |-> FALSE, procs |-> procs, signalled |-> signalled]
    ELSE LET t == Head(targets)
         IN  IF ~procs[t].alive
             THEN TerminateLoop(Tail(targets), procs, signalled)
             ELSE IF procs[t].tough = "denied"
             THEN [denied |-> TRUE, procs |-> procs, signalled |-> signalled]
             ELSE TerminateLoop(Tail(targets),
                                [procs EXCEPT ![t].alive = (procs[t].tough # "dies")],
                                signalled \cup {t})

\* the loop of target.kill() over the targets still alive after the wait
RECURSIVE KillLoop(_, _, _)
KillLoop(targets, procs, signalled) ==
    IF targets = <<>>
    THEN [procs |-> procs, signalled |-> signalled]
    ELSE LET t == Head(targets)
         IN  IF ~procs[t].alive \/ procs[t].tough = "denied"
             THEN KillLoop(Tail(targets), procs, signalled)
             ELSE KillLoop(Tail(targets),
                           [procs EXCEPT ![t].alive = (procs[t].tough = "unkillable")],
                           signalled \cup {t})

\* what _terminate_process returns once both loops have run
Terminated(targets, t, k) ==
    IF t.denied
    THEN [success |-> FALSE, procs |-> t.procs, signalled |-> t.signalled]
    ELSE [success |-> \A i \in 1..Len(targets) : ~k.procs[targets[i]].alive,
          procs |-> k.procs, signalled |-> k.signalled]

TerminateTargets(targets, t) ==
    Terminated(targets, t, KillLoop(targets, t.procs, t.signalled))

\* _terminate_process(proc, timeout): proc and its children, recursively
TerminateProcess(p, procs, parent, signalled) ==
    LET children == IF procs[p].alive
                    THEN Ascending({q \in Descendants(parent, p) : procs[q].alive})
                    ELSE <<>>
    IN  TerminateTargets(<<p>> \o children,
                         TerminateLoop(<<p>> \o children, procs, signalled))

\* the end of _stop_with_pidfile, given what _terminate_process returned
PidfileStopped(s, r) ==
    [s EXCEPT !.procs = r.procs, !.signalled = r.signalled, !.stopped = r.success,
              !.pidfile = IF r.success THEN "absent" ELSE @,
              !.unlinked = r.success]

\* _stop_with_pidfile(pidfile, markers, timeout)
StopWithPidfile(s) ==
    IF s.pidfile # "pid"
    THEN s
    ELSE IF s.pid \notin Pids \/ ~s.procs[s.pid].alive
    THEN [s EXCEPT !.pidfile = "absent", !.unlinked = TRUE]
    ELSE IF ~IsServiceProcess(s.procs[s.pid])
    THEN s
    ELSE PidfileStopped(s, TerminateProcess(s.pid, s.procs, s.parent, s.signalled))

\* _find_processes(markers)
FindProcesses(procs) == Ascending({p \in Pids : IsServiceProcess(procs[p])})

\* one pass of the loop of _stop_by_search, given what _terminate_process returned
RECURSIVE SearchLoop(_, _, _, _, _)
SearchNext(matches, r, parent, stopped_any) ==
    SearchLoop(Tail(matches), r.procs, parent, r.signalled, r.success \/ stopped_any)

\* the loop of _stop_by_search; proc.cmdline() of a match that is gone by
\* now raises NoSuchProcess, which nothing catches
SearchLoop(matches, procs, parent, signalled, stopped_any) ==
    IF matches = <<>>
    THEN [raised |-> FALSE, stopped |-> stopped_any, procs |-> procs,
          signalled |-> signalled]
    ELSE IF ~procs[Head(matches)].alive
    THEN [raised |-> TRUE, stopped |-> stopped_any, procs |-> procs,
          signalled |-> signalled]
    ELSE SearchNext(matches, TerminateProcess(Head(matches), procs, parent, signalled),
                    parent, stopped_any)

\* _stop_by_search(markers, timeout)
StopBySearch(s) ==
    SearchLoop(FindProcesses(s.procs), s.procs, s.parent, s.signalled, FALSE)

NoScript == [pc |-> "none", procs |-> [p \in Pids |-> Gone], parent |-> [p \in Pids |-> 0],
             pidfile |-> "absent", pid |-> 0, signalled |-> {}, stopped |-> FALSE,
             unlinked |-> FALSE]

\* the runs of the script: every process table, and a pidfile that is
\* missing, unreadable, or names a pid of the table or a pid outside it
Scripts ==
    {[pc |-> "start", procs |-> t, parent |-> f, pidfile |-> pf.file, pid |-> pf.pid,
      signalled |-> {}, stopped |-> FALSE, unlinked |-> FALSE] :
        t \in [Pids -> Processes], f \in Parents,
        pf \in {[file |-> "absent", pid |-> 0], [file |-> "garbage", pid |-> 0]}
               \cup {[file |-> "pid", pid |-> n] : n \in Pids \cup {3}}}

\* ----------------------------------------------------------- state machine
InitProcessor ==
    /\ phase = "new"
    /\ token_service = [kind |-> "words", failAt |-> 0, sticky |-> FALSE]
    /\ chunk_size = 0
    /\ chunk_overlap = 0
    /\ min_chunk_size = 0
    /\ args = NoArgs
    /\ warned = FALSE
    /\ op = "none"
    /\ text = <<>>
    /\ ret = NoCall

\* the processor before its construction; no script run, no request
Init ==
    /\ InitProcessor
    /\ script = NoScript
    /\ upload = NoUpload

\* DoclingDocumentProcessor.__init__(token_service, chunk_size, chunk_overlap,
\* min_chunk_size), min_chunk_size drawn from MinSizes
ConstructWith(MinSizes) ==
    /\ phase = "new"
    /\ \E ts \in TokenServices, cs \in 0..MaxChunkSize, co \in -1..MaxChunkSize,
          mcs \in MinSizes :
          /\ token_service' = ts
          /\ args' = [chunk_size |-> cs, chunk_overlap |-> co, min_chunk_size |-> mcs]
          /\ warned' = ValidateWarns(cs, co, mcs)
          /\ IF ValidateRaises(cs, co, mcs)
             THEN /\ phase' = "rejected"
                  /\ UNCHANGED <<chunk_size, chunk_overlap, min_chunk_size>>
             ELSE /\ phase' = "ready"
                  /\ chunk_size' = cs
                  /\ chunk_overlap' = co
                  /\ min_chunk_size' = mcs
    /\ UNCHANGED <<op, text, ret>>
    /\ UNCHANGED outside

\* the construction of the processor whose methods are then invoked
Construct == ConstructWith(0..MaxMinChunkSize)

\* a construction with any min_chunk_size up to beyond chunk_size * 4
ConstructAnyMinSize == ConstructWith(0..(MaxChunkSize * 4 + 1))

\* a split that keeps the window of its character fallback in chunk_size
SplitKeepsWindow ==
    /\ phase = "ready"
    /\ op = "none"
    /\ \E s \in Texts :
          /\ op' = "split"
          /\ text' = s
          /\ ret' = [split |-> RecursiveTokenSplit(s), error |-> FALSE, chunks |-> <<>>]
          /\ chunk_size' = IF RecursiveTokenSplit(s).path = "fallback"
                           THEN chunk_size * 4 ELSE chunk_size
    /\ UNCHANGED <<phase, token_service, chunk_overlap, min_chunk_size, args, warned>>
    /\ UNCHANGED outside

\* one invocation of _recursive_token_split(text)
Split ==
    /\ phase = "ready"
    /\ op = "none"
    /\ \E s \in Texts :
          /\ op' = "split"
          /\ text' = s
          /\ ret' = [split |-> RecursiveTokenSplit(s), error |-> FALSE, chunks |-> <<>>]
    /\ UNCHANGED config
    /\ UNCHANGED outside

\* one invocation of _create_token_chunks(document, text, doc_metadata)
Create ==
    /\ phase = "ready"
    /\ op = "none"
    /\ \E s \in Texts :
          /\ op' = "create"
          /\ text' = s
          /\ ret' = CreateTokenChunks(s)
    /\ UNCHANGED config
    /\ UNCHANGED outside

\* one invocation of _split_by_words(text); ret is [exc, n, out, caught],
\* exc standing for the exception of the counter, which nothing catches here
SplitWords ==
    /\ phase = "ready"
    /\ op = "none"
    /\ \E s \in Texts :
          /\ op' = "words"
          /\ text' = s
          /\ ret' = SplitByWords(s, 0)
    /\ UNCHANGED config
    /\ UNCHANGED outside

\* one invocation of _get_overlap_text(text, self.chunk_overlap), as
\* _apply_overlap calls it; ret is [exc, n, out, caught], out the text returned
OverlapText ==
    /\ phase = "ready"
    /\ op = "none"
    /\ \E s \in Texts :
          /\ op' = "overlap"
          /\ text' = s
          /\ ret' = GetOverlapText(s, chunk_overlap, 0)
    /\ UNCHANGED config
    /\ UNCHANGED outside

\* one invocation of _fallback_character_split(text); ret is [exc, n, out,
\* caught]: the function has no raise and no count_tokens call
FallbackSplit ==
    /\ phase = "ready"
    /\ op = "none"
    /\ \E s \in Texts :
          /\ op' = "fallback"
          /\ text' = s
          /\ ret' = Returned(FallbackCharacterSplit(s), 0, FALSE)
    /\ UNCHANGED config
    /\ UNCHANGED outside

\* the invocation hands its result to the caller; nothing of it stays behind
Return ==
    /\ op # "none"
    /\ op' = "none"
    /\ text' = <<>>
    /\ ret' = NoCall
    /\ UNCHANGED config
    /\ UNCHANGED outside

Next == Construct \/ Split \/ Create \/ Return

Spec == Init /\ [][Next]_vars

\* the construction of a processor for the helpers, which never read
\* min_chunk_size
ConstructForHelpers == ConstructWith({1})

NextHelpers == ConstructForHelpers \/ SplitWords \/ OverlapText \/ FallbackSplit \/ Return

\* the helpers _split_by_words and _get_overlap_text invoked on their own
SpecHelpers == Init /\ [][NextHelpers]_vars

\* the constructor alone, over the wider range of min_chunk_size
SpecConstruct == Init /\ [][ConstructAnyMinSize]_vars

\* shutdown(): first _stop_with_pidfile
ShutdownPidfile ==
    /\ script.pc = "start"
    /\ script' = [StopWithPidfile(script) EXCEPT !.pc = "pidfile"]
    /\ UNCHANGED <<processor, upload>>

\* shutdown(): then _stop_by_search, unless the pidfile stopped the service
ShutdownSearch ==
    /\ script.pc = "pidfile"
    /\ script' = IF script.stopped
                 THEN [script EXCEPT !.pc = "done"]
                 ELSE LET r == StopBySearch(script)
                      IN  [script EXCEPT !.pc = IF r.raised THEN "raised" ELSE "done",
                                         !.procs = r.procs,
                                         !.signalled = r.signalled,
                                         !.stopped = r.stopped]
    /\ UNCHANGED <<processor, upload>>

InitShutdown ==
    /\ InitProcessor
    /\ script \in Scripts
    /\ upload = NoUpload

NextShutdown == ShutdownPidfile \/ ShutdownSearch

\* one run of the shutdown script from any process table and pidfile
SpecShutdown == InitShutdown /\ [][NextShutdown]_vars

\* a request arrives at POST /upload with a file of some name
UploadRequest ==
    /\ upload.pc = "none"
    /\ \E f \in Suffixes, n \in Sizes :
          upload' = [NoUpload EXCEPT !.pc = "start", !.filename = f, !.size = n]
    /\ UNCHANGED <<processor, script>>

\* determine_document_type(file.filename); InvalidDocumentTypeError becomes
\* HTTPException(400), which the outer handler lets through
UploadDetermineType ==
    /\ upload.pc = "start"
    /\ LET d == DetermineDocumentType(upload.filename)
       IN  \E unlink_ok \in BOOLEAN :
              upload' = IF d.raises
                        THEN Exit(upload, "http400", unlink_ok)
                        ELSE [upload EXCEPT !.pc = "typed", !.doc_type = d.type]
    /\ UNCHANGED <<processor, script>>

\* mkdir, the choice of saved_path, open and copyfileobj, file.file.close():
\* mkdir raises before saved_path is set; open raises and leaves no file;
\* copyfileobj raises and leaves a part of the file; close raises after the
\* file was written
UploadSave ==
    /\ upload.pc = "typed"
    /\ \E how \in {"ok", "mkdir", "open", "copy", "close"}, id \in NewIds,
          unlink_ok \in BOOLEAN :
          LET named == [upload EXCEPT !.saved_path = id \o Lower(upload.filename)]
              filed == [named EXCEPT !.on_disk = TRUE, !.written = TRUE]
          IN  upload' = CASE how = "ok" -> [filed EXCEPT !.pc = "saved"]
                          [] how = "mkdir" -> Exit(upload, "error", unlink_ok)
                          [] how = "open" -> Exit(named, "http500", unlink_ok)
                          [] how = "copy" -> Exit(filed, "http500", unlink_ok)
                          [] how = "close" -> Exit(filed, "error", unlink_ok)
    /\ UNCHANGED <<processor, script>>

\* saved_path.stat() and DomainDocument.create(..., file_size=st_size, ...),
\* either of which may raise
UploadBuild ==
    /\ upload.pc = "saved"
    /\ \E raises \in BOOLEAN, unlink_ok \in BOOLEAN :
          upload' = IF raises
                    THEN Exit(upload, "error", unlink_ok)
                    ELSE [upload EXCEPT !.pc = "built", !.file_size = upload.size]
    /\ UNCHANGED <<processor, script>>

\* await process_document(domain_doc), then the cleanup and the return
UploadProcess ==
    /\ upload.pc = "built"
    /\ \E raises \in BOOLEAN, unlink_ok \in BOOLEAN :
          upload' = Exit(upload, IF raises THEN "error" ELSE "result", unlink_ok)
    /\ UNCHANGED <<processor, script>>

\* the response is sent; the next request starts from nothing
UploadRespond ==
    /\ upload.pc \in {"returned", "raised"}
    /\ upload' = NoUpload
    /\ UNCHANGED <<processor, script>>

NextUpload ==
    \/ UploadRequest
    \/ UploadDetermineType
    \/ UploadSave
    \/ UploadBuild
    \/ UploadProcess
    \/ UploadRespond

\* requests to upload_document, one after the other
SpecUpload == Init /\ [][NextUpload]_vars

\* ------------------------------------------------------------------ claims
\* the invocation on record is a finished _recursive_token_split
SplitDone == op = "split"
\* the token service of this processor never raises
Total == token_service.failAt = 0
\* the counter raised at some call of the invocation on record
CounterRaised == token_service.failAt > 0 /\ ret.split.n >= token_service.failAt
\* the token count of a text, by the processor's counter
Count(s) == Tokens(token_service.kind, s)

\* the words of a list of chunks, in order
RECURSIVE WordsOfAll(_)
WordsOfAll(chunks) ==
    IF chunks = <<>> THEN <<>> ELSE Words(Head(chunks)) \o WordsOfAll(Tail(chunks))

\* the last k elements of a sequence
LastK(q, k) == SubSeq(q, Len(q) - k + 1, Len(q))

\* C1 (as claimed): with a counter that never raises, every chunk of the
\* list before overlap injection counts at most chunk_size tokens, unless
\* it is a single word that alone counts more than chunk_size.  (A chunk
\* without any word is let through as well, so that a violation shows a
\* chunk packed from several units.)
C1_Budget ==
    (SplitDone /\ Total) =>
        \A i \in 1..Len(ret.split.pre) :
            \/ Count(ret.split.pre[i]) <= chunk_size
            \/ Len(Words(ret.split.pre[i])) <= 1

\* C1, what the code does keep: the budget holds for the counters whose
\* count of a joined text is the sum of the counts of its units.
C1_BudgetAdditive ==
    (SplitDone /\ Total /\ token_service.kind # "chars") =>
        \A i \in 1..Len(ret.split.pre) :
            \/ Count(ret.split.pre[i]) <= chunk_size
            \/ Len(Words(ret.split.pre[i])) <= 1

Prepended(chunk, ov, base) ==
    IF ov = <<>> THEN chunk = base ELSE chunk = ov \o <<SP>> \o base

C4_SplitNeverFails ==
    op \in {"split", "create"} =>
        /\ ~ret.split.exc
        /\ ret.split.out \in Seq(Seq(Char))

\* C4 witness: the counter raised inside the paragraph loop and the split
\* still returned chunks.
C4_Witness ==
    /\ SplitDone /\ CounterRaised
    /\ token_service.failAt >= 2
    /\ ret.split.path = "fallback"
    /\ Len(ret.split.out) >= 2
    /\ C4_SplitNeverFails

\* C5 (as claimed): when the counter raised while splitting by paragraph,
\* sentence or word, the returned list is the character split of the
\* whole text.
C5_ErrorMeansFallback ==
    (SplitDone /\ (ret.split.path = "fallback" \/ ret.split.caught)) =>
        ret.split.out = FallbackCharacterSplit(text)

\* a occurs in b as a contiguous piece
IsSubstring(a, b) ==
    \E i \in 0..(Len(b) - Len(a)) : SubSeq(b, i + 1, i + Len(a)) = a

\* a can be obtained from b by deleting elements
RECURSIVE IsSubsequence(_, _)
IsSubsequence(a, b) ==
    IF a = <<>> THEN TRUE
    ELSE IF b = <<>> THEN FALSE
    ELSE IF Head(a) = Head(b) THEN IsSubsequence(Tail(a), Tail(b))
    ELSE IsSubsequence(a, Tail(b))

\* C6 (as claimed, for a text with at least one word): when the counter
\* raised, the returned list is not empty, each of its chunks is a
\* substring of the input, and together they cover the input's content.
C6_Degradation ==
    (SplitDone /\ CounterRaised /\ Words(text) # <<>>) =>
        /\ ret.split.out # <<>>
        /\ \A i \in 1..Len(ret.split.out) : IsSubstring(ret.split.out[i], text)
        /\ IsSubsequence(NonWS(text), NonWS(Concat(ret.split.out)))

\* C7 (as claimed, for a text with at least one word): a text within the
\* budget comes back as exactly one chunk, the trimmed text.
C7_TrivialInput ==
    (SplitDone /\ Total /\ Words(text) # <<>> /\ Count(text) <= chunk_size) =>
        ret.split.out = <<Strip(text)>>

\* C8 (as claimed): the empty text yields no chunk.
C8_EmptyInput ==
    (SplitDone /\ text = <<>>) => ret.split.out = <<>>

\* C9 (as claimed): no returned chunk starts or ends with whitespace.
C9_Trimmed ==
    SplitDone => \A i \in 1..Len(ret.split.out) : ret.split.out[i] = Strip(ret.split.out[i])

\* the contents of a list of fragments
Contents(fragments) == [i \in 1..Len(fragments) |-> fragments[i].content]

\* C10: the fragments are the trimmed chunks of at least min_chunk_size
\* characters, in the order of the split, and nothing of a dropped chunk
\* reaches a fragment; when every chunk is shorter, there is no fragment.
C10_MinSizeFilter ==
    (op = "create" /\ ~ret.error) =>
        LET kept == SelectSeq(ret.split.out, LAMBDA c : Len(Strip(c)) >= min_chunk_size)
        IN  /\ Contents(ret.chunks) = [i \in 1..Len(kept) |-> Strip(kept[i])]
            /\ (\A i \in 1..Len(ret.split.out) :
                    Len(Strip(ret.split.out[i])) < min_chunk_size) => ret.chunks = <<>>

\* C10 witness: a chunk between two retained chunks was dropped.
C10_Witness ==
    /\ op = "create" /\ ~ret.error
    /\ Len(ret.split.out) = 3
    /\ Len(ret.chunks) = 2
    /\ Len(Strip(ret.split.out[2])) < min_chunk_size
    /\ C10_MinSizeFilter

\* C11 (as claimed): the retained fragments carry the indices 0, 1, ...,
\* k-1 in order; a dropped chunk consumes no index.
C11_IndicesSequential ==
    (op = "create" /\ ~ret.error) =>
        \A j \in 1..Len(ret.chunks) : ret.chunks[j].chunk_index = j - 1

\* the sizes satisfy the constraints of the configuration
ValidSizes(cs, co, mcs) == cs > 0 /\ 0 <= co /\ co < cs /\ mcs > 0

C13_Stateless ==
    [][phase = "ready" =>
          /\ UNCHANGED config
          /\ <<chunk_size', chunk_overlap', min_chunk_size'>> =
                 <<args.chunk_size, args.chunk_overlap, args.min_chunk_size>>
          /\ op' = "split" => ret'.split = RecursiveTokenSplit(text')
          /\ op' = "none" => <<text', ret'>> = <<<<>>, NoCall>>]_vars

\* C13 witness: a split whose counter raised has taken the character
\* fallback, and the processor still has the sizes it was constructed with.
C13_Witness ==
    /\ SplitDone /\ CounterRaised
    /\ ret.split.path = "fallback"
    /\ Len(ret.split.out) >= 2
    /\ <<chunk_size, chunk_overlap, min_chunk_size>> =
           <<args.chunk_size, args.chunk_overlap, args.min_chunk_size>>

\* s is a run of words separated by single spaces: no other whitespace,
\* no sentence punctuation
PlainRun(s) ==
    /\ s = Join(Words(s), <<SP>>)
    /\ \A i \in 1..Len(s) : ~IsPunct(s[i])

\* the i-th group of size words of the sequence w
Group(w, i, size) ==
    SubSeq(w, (i - 1) * size + 1, IF i * size < Len(w) THEN i * size ELSE Len(w))

\* C14: with the word counter, a run of N > chunk_size words separated by
\* single spaces is split into ceil(N / chunk_size) chunks; before overlap
\* the i-th chunk is the i-th group of chunk_size words (the last group
\* possibly shorter), and every returned chunk after the first is the last
\* chunk_overlap words of the preceding group, a space and its own group.
C14_WordRun ==
    (SplitDone /\ Total /\ token_service.kind = "words" /\ PlainRun(text)
        /\ Len(Words(text)) > chunk_size) =>
        LET w == Words(text)
            k == (Len(w) + chunk_size - 1) \div chunk_size
        IN  /\ Len(ret.split.pre) = k
            /\ Len(ret.split.out) = k
            /\ \A i \in 1..k : ret.split.pre[i] = Join(Group(w, i, chunk_size), <<SP>>)
            /\ ret.split.out[1] = ret.split.pre[1]
            /\ \A i \in 2..k :
                  Prepended(ret.split.out[i],
                            Join(LastK(Group(w, i - 1, chunk_size), chunk_overlap), <<SP>>),
                            ret.split.pre[i])

\* C14 witness: a run of words was cut into three chunks, the last one
\* shorter, and the second and the third begin with the last word of the
\* group before.
C14_Witness ==
    /\ SplitDone /\ Total /\ token_service.kind = "words" /\ PlainRun(text)
    /\ chunk_overlap >= 1
    /\ Len(Words(text)) > chunk_size
    /\ Len(Words(text)) % chunk_size # 0
    /\ Len(ret.split.out) >= 3
    /\ ret.split.out[2] # ret.split.pre[2]
    /\ ret.split.out[3] # ret.split.pre[3]
    /\ C14_WordRun

\* C15: overlap injection keeps the number and the order of the chunks
\* and leaves the first chunk as it was; what it prepends to chunk i is
\* made of last words of chunk i-1 as it was before overlap, never of
\* more words than that chunk had, so nothing that chunk i-1 received
\* from chunk i-2 reaches chunk i.
C15_OverlapFromOriginal ==
    SplitDone =>
        /\ Len(ret.split.out) = Len(ret.split.pre)
        /\ ret.split.out # <<>> => ret.split.out[1] = ret.split.pre[1]
        /\ \A i \in 2..Len(ret.split.out) :
              /\ \E k \in 0..Len(Words(ret.split.pre[i - 1])) :
                    Prepended(ret.split.out[i],
                              Join(LastK(Words(ret.split.pre[i - 1]), k), <<SP>>),
                              ret.split.pre[i])
              /\ Len(Words(ret.split.out[i])) <=
                     Len(Words(ret.split.pre[i - 1])) + Len(Words(ret.split.pre[i]))

\* C15 witness: the second chunk received overlap from the first, the
\* third received every word of the second as it was before overlap, and
\* the budget would have admitted one more word of the overlapped second
\* chunk.
C15_Witness ==
    /\ SplitDone /\ Total
    /\ Len(ret.split.out) >= 3
    /\ ret.split.out[2] # ret.split.pre[2]
    /\ Prepended(ret.split.out[3], Join(Words(ret.split.pre[2]), <<SP>>), ret.split.pre[3])
    /\ Count(Join(LastK(Words(ret.split.out[2]), Len(Words(ret.split.pre[2])) + 1), <<SP>>))
           <= chunk_overlap
    /\ C15_OverlapFromOriginal

\* the paragraphs the paragraph loop works on: stripped, the empty ones skipped
ParagraphsOf(s) == StrippedNonEmpty(SplitParagraphs(s))

\* C16: when the paragraph loop ran to its end, the chunks before overlap
\* divide, for every paragraph that alone counts more than chunk_size,
\* into the chunks of the paragraphs before it, the chunks of that
\* paragraph alone, and the chunks of the paragraphs after it: no chunk
\* holds words of an oversized paragraph and of a neighbour, and the
\* order of the text is kept.  With a counter that never raises the
\* chunks of the paragraph are what its sentence split returns.
C16_OversizedParagraph ==
    (SplitDone /\ ret.split.path = "paragraphs") =>
        LET P == ParagraphsOf(text)
            pre == ret.split.pre
        IN  \A j \in 1..Len(P) :
                Count(P[j]) > chunk_size =>
                    \E a \in 0..Len(pre) : \E b \in a..Len(pre) :
                        /\ WordsOfAll(SubSeq(pre, 1, a)) = WordsOfAll(SubSeq(P, 1, j - 1))
                        /\ WordsOfAll(SubSeq(pre, a + 1, b)) = Words(P[j])
                        /\ WordsOfAll(SubSeq(pre, b + 1, Len(pre))) =
                               WordsOfAll(SubSeq(P, j + 1, Len(P)))
                        /\ Total => SubSeq(pre, a + 1, b) = SplitBySentences(P[j], 0).out

\* C16 witness: an oversized paragraph stands between two paragraphs
\* within the budget and was cut into several pieces.
C16_Witness ==
    /\ SplitDone /\ Total /\ ret.split.path = "paragraphs"
    /\ \E j \in 2..(Len(ParagraphsOf(text)) - 1) :
          /\ Count(ParagraphsOf(text)[j]) > chunk_size
          /\ Count(ParagraphsOf(text)[j - 1]) <= chunk_size
          /\ Count(ParagraphsOf(text)[j + 1]) <= chunk_size
          /\ Len(SplitBySentences(ParagraphsOf(text)[j], 0).out) >= 2
    /\ C16_OversizedParagraph

\* the three levels of packing and, per level, the units a text is made
\* of and the separator its units are joined with
Levels == {"paragraphs", "sentences", "words"}

UnitsAt(level, s) ==
    CASE level = "paragraphs" -> ParagraphsOf(s)
      [] level = "sentences" -> StrippedNonEmpty(ReSplitSentences(s))
      [] OTHER -> Words(s)

SepAt(level) == IF level = "paragraphs" THEN <<NL, NL>> ELSE <<SP>>

RECURSIVE UnitsOfAll(_, _)
UnitsOfAll(level, chunks) ==
    IF chunks = <<>> THEN <<>>
    ELSE UnitsAt(level, Head(chunks)) \o UnitsOfAll(level, Tail(chunks))

RECURSIVE SumCounts(_)
SumCounts(units) ==
    IF units = <<>> THEN 0 ELSE Count(Head(units)) + SumCounts(Tail(units))

\* the token total the level compares with chunk_size for a buffer of
\* these units: the sum of the unit counts for paragraphs and sentences,
\* the count of the joined buffer for words
TotalAt(level, units) ==
    IF level = "words" THEN Count(Join(units, <<SP>>)) ELSE SumCounts(units)

\* the split of the text on record was packed at this level only:
\* paragraphs or sentences all within the budget, or one sentence over it
AtLevel(level) ==
    CASE level = "paragraphs" ->
            /\ ret.split.path = "paragraphs"
            /\ \A j \in 1..Len(ParagraphsOf(text)) :
                  Count(ParagraphsOf(text)[j]) <= chunk_size
      [] level = "sentences" ->
            /\ ret.split.path = "sentences"
            /\ UnitsAt("sentences", text) # <<>>
            /\ \A j \in 1..Len(UnitsAt("sentences", text)) :
                  Count(UnitsAt("sentences", text)[j]) <= chunk_size
      [] OTHER ->
            /\ ret.split.path = "sentences"
            /\ Len(UnitsAt("sentences", text)) = 1
            /\ Count(UnitsAt("sentences", text)[1]) > chunk_size

\* C17: at each level the chunks before overlap are the units of the
\* text in order, joined by the separator of the level; a chunk of
\* several units has a token total of at most chunk_size, and a chunk
\* ends only where the next unit would have made its total strictly
\* greater than chunk_size, so a unit that brings the total to exactly
\* chunk_size stays in the chunk.
C17_StrictTieBreak ==
    (SplitDone /\ Total) =>
        \A level \in Levels :
            AtLevel(level) =>
                /\ UnitsOfAll(level, ret.split.pre) = UnitsAt(level, text)
                /\ \A i \in 1..Len(ret.split.pre) :
                      LET units == UnitsAt(level, ret.split.pre[i])
                      IN  /\ units # <<>>
                          /\ ret.split.pre[i] = Join(units, SepAt(level))
                          /\ TotalAt(level, units) <= chunk_size \/ Len(units) = 1
                          /\ i < Len(ret.split.pre) =>
                                TotalAt(level, Append(units,
                                    Head(UnitsAt(level, ret.split.pre[i + 1])))) > chunk_size

\* C17 witness: at the sentence level a sentence brought the buffer to
\* exactly chunk_size tokens and stayed in it, and the next one started a
\* new chunk.
C17_Witness ==
    /\ SplitDone /\ Total
    /\ AtLevel("sentences")
    /\ Len(ret.split.pre) >= 2
    /\ Len(UnitsAt("sentences", ret.split.pre[1])) >= 2
    /\ SumCounts(UnitsAt("sentences", ret.split.pre[1])) = chunk_size
    /\ C17_StrictTieBreak

\* the invocation on record is a finished _split_by_words
WordsDone == op = "words"

\* C18: with a counter that never raises, the chunks of _split_by_words
\* are words of the text joined by single spaces and list all its words
\* once, in order; a word that alone counts more than chunk_size is the
\* only word of its chunk, and every chunk of another kind counts at
\* most chunk_size tokens.
C18_SplitByWords ==
    (WordsDone /\ Total) =>
        /\ ~ret.exc
        /\ WordsOfAll(ret.out) = Words(text)
        /\ \A i \in 1..Len(ret.out) :
              LET words == Words(ret.out[i])
              IN  /\ words # <<>>
                  /\ ret.out[i] = Join(words, <<SP>>)
                  /\ \A j \in 1..Len(words) : Count(words[j]) > chunk_size => Len(words) = 1
                  /\ Count(ret.out[i]) <= chunk_size \/ Len(words) = 1

\* C18 witness: a word over the budget stands alone in a chunk between
\* two other chunks.
C18_Witness ==
    /\ WordsDone /\ Total
    /\ Len(ret.out) >= 3
    /\ \E i \in 2..(Len(ret.out) - 1) :
          /\ Count(ret.out[i]) > chunk_size
          /\ Len(Words(ret.out[i])) = 1
    /\ C18_SplitByWords

\* the invocation on record is a finished _get_overlap_text, its budget
\* being chunk_overlap
OverlapDone == op = "overlap"

\* C19 (as claimed): for every counter that never raises,
\* _get_overlap_text returns the empty text when the budget is 0 or the
\* text has no words, and what it returns counts at most the budget.
C19_TailEmptyAndBound ==
    (OverlapDone /\ Total) =>
        /\ (chunk_overlap = 0 \/ Words(text) = <<>>) => ret.out = <<>>
        /\ Count(ret.out) <= chunk_overlap

\* the last k words of s, joined by single spaces
WordSuffix(s, k) == Join(LastK(Words(s), k), <<SP>>)

\* C20: when overlap is injected by a counter that never raises, what
\* chunk i receives is the longest word suffix of chunk i-1 before
\* overlap that counts at most chunk_overlap tokens: all its words, or a
\* suffix that one more word would take over chunk_overlap, and no longer
\* suffix counts at most chunk_overlap.
C20_OverlapMaximal ==
    (SplitDone /\ Total /\ chunk_overlap > 0 /\ Len(ret.split.pre) > 1) =>
        \A i \in 2..Len(ret.split.out) :
            \E k \in 0..Len(Words(ret.split.pre[i - 1])) :
                /\ Prepended(ret.split.out[i], WordSuffix(ret.split.pre[i - 1], k),
                             ret.split.pre[i])
                /\ Count(WordSuffix(ret.split.pre[i - 1], k)) <= chunk_overlap
                /\ \/ k = Len(Words(ret.split.pre[i - 1]))
                   \/ Count(WordSuffix(ret.split.pre[i - 1], k + 1)) > chunk_overlap
                /\ \A m \in (k + 1)..Len(Words(ret.split.pre[i - 1])) :
                      Count(WordSuffix(ret.split.pre[i - 1], m)) > chunk_overlap

\* C20 witness: the overlap of the second chunk is two words of the
\* first, and a third word would have gone over chunk_overlap.
C20_Witness ==
    /\ SplitDone /\ Total /\ chunk_overlap > 0
    /\ Len(ret.split.pre) > 1
    /\ Len(Words(ret.split.pre[1])) >= 3
    /\ Prepended(ret.split.out[2], WordSuffix(ret.split.pre[1], 2), ret.split.pre[2])
    /\ Count(WordSuffix(ret.split.pre[1], 3)) > chunk_overlap
    /\ C20_OverlapMaximal

\* the invocation on record is a finished _fallback_character_split
FallbackDone == op = "fallback"

\* the i-th window of size characters of s
Window(s, i, size) ==
    SubSeq(s, (i - 1) * size + 1, IF i * size < Len(s) THEN i * size ELSE Len(s))

\* C21: whatever the token service does, _fallback_character_split
\* returns, without raising and without a counter call, the consecutive
\* windows of chunk_size * 4 characters of the text, in order, each
\* trimmed, the ones empty after trimming left out; the windows share no
\* character, so the chunks together hold the non-whitespace characters
\* of the text once.
C21_FallbackWindows ==
    FallbackDone =>
        LET size == chunk_size * 4
            k == (Len(text) + size - 1) \div size
            windows == [i \in 1..k |-> Strip(Window(text, i, size))]
        IN  /\ ~ret.exc
            /\ ret.n = 0
            /\ ret.out = SelectSeq(windows, LAMBDA w : w # <<>>)
            /\ NonWS(Concat(ret.out)) = NonWS(text)

\* C21 witness: with a counter that always raises, a text of several
\* windows was cut, and trimming changed one of the windows.
C21_Witness ==
    /\ FallbackDone
    /\ token_service.failAt = 1 /\ token_service.sticky
    /\ Len(text) > chunk_size * 4
    /\ Len(ret.out) >= 2
    /\ Len(Concat(ret.out)) < Len(text)
    /\ C21_FallbackWindows

\* the hierarchical split (not the character fallback) produced the
\* chunks of the invocation on record
Hierarchical == ret.split.path \in {"paragraphs", "sentences"}

\* C22: with chunk_overlap = 0 or a single chunk, and always on the base
\* case and the fallback, the split returns the chunks as they were before
\* overlap, and then every non-whitespace character of the text is in one
\* chunk only; when the hierarchical split produced several chunks and
\* chunk_overlap > 0, what is returned is what overlap injection makes of
\* them (checked for the counters that never raise).
C22_OverlapGating ==
    SplitDone =>
        /\ (chunk_overlap = 0 \/ Len(ret.split.pre) <= 1 \/ ~Hierarchical) =>
              /\ ret.split.out = ret.split.pre
              /\ NonWS(Concat(ret.split.out)) = NonWS(text)
        /\ (Total /\ Hierarchical /\ chunk_overlap > 0 /\ Len(ret.split.pre) > 1) =>
              ret.split.out = ApplyOverlap(ret.split.pre, 0).out

\* C22 witness: the hierarchical split produced three chunks that would
\* take overlap, and with chunk_overlap = 0 they came back as they were.
C22_Witness ==
    /\ SplitDone /\ Total /\ Hierarchical
    /\ chunk_overlap = 0
    /\ Len(ret.split.pre) >= 3
    /\ chunk_size >= 2
    /\ ret.split.out = ret.split.pre
    /\ C22_OverlapGating

\* the process p of the table looks like the service: a marker in its name
\* or command line, and the repository in its working directory or
\* command line
LooksLikeService(p) ==
    /\ script.procs[p].readable
    /\ script.procs[p].marker
    /\ script.procs[p].cwd \/ script.procs[p].cmd

\* the pidfile of this run names the process p of the table
PidfileNames(p) == script.pid = p /\ p \in Pids

\* the pidfile is removed only when its process no longer exists or was
\* stopped
UnlinkedOnlyWhenGone ==
    script.unlinked => (script.pid \notin Pids \/ ~script.procs[script.pid].alive)

Additive == token_service.kind # "chars"

\* C24: with an additive counter that never raises, split returns as many
\* chunks as it had before overlap injection; the first is unchanged; every
\* chunk counts at most chunk_overlap tokens more than before the injection,
\* and at most chunk_size + chunk_overlap tokens unless it is built on a
\* single word that alone counts more than chunk_size.
C24_PostOverlapBound ==
    (SplitDone /\ Total /\ Additive) =>
        /\ Len(ret.split.out) = Len(ret.split.pre)
        /\ \A i \in 1..Len(ret.split.out) :
              /\ i = 1 => ret.split.out[i] = ret.split.pre[i]
              /\ Count(ret.split.out[i]) <= Count(ret.split.pre[i]) + chunk_overlap
              /\ \/ Count(ret.split.out[i]) <= chunk_size + chunk_overlap
                 \/ /\ Len(Words(ret.split.pre[i])) = 1
                    /\ Count(ret.split.pre[i]) > chunk_size

\* a chunk after the first was within chunk_size and exceeds it by the
\* overlap it received
C24_Witness ==
    /\ SplitDone /\ Total /\ Additive
    /\ \E i \in 2..Len(ret.split.out) :
          /\ Count(ret.split.pre[i]) <= chunk_size
          /\ Count(ret.split.out[i]) > chunk_size

\* upload_document has returned or raised
UploadOver == upload.pc \in {"returned", "raised"}

\* C25: when upload_document returns or raises after the uploaded file was
\* written, the file is gone unless its delete failed; a file name with an
\* unsupported extension ends in status 400, and at no point of such a
\* request is a file written or a path chosen.
C25_UploadCleanup ==
    /\ (UploadOver /\ upload.written /\ ~upload.delete_failed) => ~upload.on_disk
    /\ (upload.pc # "none" /\ upload.filename \notin {".pdf", ".PDF", ".docx", ".Doc"}) =>
          /\ ~upload.written /\ ~upload.on_disk /\ upload.saved_path = ""
          /\ UploadOver => upload.outcome = "http400"

\* process_document raised after the file was written and the document
\* entity built, and the file was removed before the exception went on
C25_Witness ==
    /\ upload.pc = "raised"
    /\ upload.outcome = "error"
    /\ upload.doc_type = "doc"
    /\ upload.file_size = 1
    /\ upload.written
    /\ ~upload.on_disk

\* the chunks of the split on record that the size filter retains
Retained == SelectSeq(ret.split.out, LAMBDA c : Len(Strip(c)) >= min_chunk_size)

\* the counter raises when one of them is counted again: the recount of
\* the j-th retained chunk is call number ret.split.n + j of the invocation
RecountRaises == \E j \in 1..Len(Retained) : Raises(ret.split.n + j)

\* C26: the split itself never fails; fragment construction fails exactly
\* when the counter raises at the recount of a retained chunk, and then it
\* returns no fragment at all; a counter that raises at every call sends
\* the split to the character fallback, and with one chunk of at least
\* min_chunk_size characters the construction fails all the same.
C26_RecountFailure ==
    op = "create" =>
        /\ ~ret.split.exc
        /\ ret.error <=> RecountRaises
        /\ ret.error => ret.chunks = <<>>
        /\ (token_service.failAt = 1 /\ token_service.sticky /\ Retained # <<>>) =>
              /\ ret.split.path = "fallback"
              /\ ret.error

\* the split packed its chunks without any exception, the first retained
\* chunk was counted again, and the counter raised at the second
C26_Witness ==
    /\ op = "create"
    /\ ret.error
    /\ ret.split.path # "fallback"
    /\ ~ret.split.caught /\ ~ret.split.ocaught
    /\ Len(Retained) >= 2
    /\ ~Raises(ret.split.n + 1)
    /\ Raises(ret.split.n + 2)

\* C27 (as claimed): every retained fragment reports as its character count
\* the length of its stored content, and as its token count the count of
\* that stored content.
C27_CountsMatchContent ==
    (op = "create" /\ ~ret.error) =>
        \A j \in 1..Len(ret.chunks) :
            /\ ret.chunks[j].chunk_char_count = Len(ret.chunks[j].content)
            /\ ret.chunks[j].chunk_token_count = Count(ret.chunks[j].content)
====
